---------------------------- MODULE Spec2Model ----------------------------
(***************************************************************************)
(* Society payment portal (src/app.py): a resident selects a lane and a    *)
(* plot, chooses a billing period, and submits proof of payment; the       *)
(* handler appends one row per month of the period to a shared ledger      *)
(* sheet and the page shows the ledger rows of the selected plot.          *)
(*                                                                         *)
(* Texts (lane and plot identifiers) are sequences of character codes, so  *)
(* that natural_key can split, lower-case and compare them as Python does. *)
(* Amounts are IEEE-754 doubles (sign, 53-bit significand, exponent):      *)
(* Python's `/` on ints is a correctly rounded double division.            *)
(***************************************************************************)
EXTENDS Integers, Sequences, FiniteSets, TLC

VARIABLES
    df,            \* the roster loaded from data.csv
    sheet,         \* the ledger sheet's rows, in sheet order
    origin,        \* history variable: the (lane, plot) selection each row was submitted under
    clicks,        \* submit clicks handled so far, over all sessions
    pc,            \* per session: where its script run stands
    sel,           \* per session: selected_lane, plot_no and the resident looked up
    form,          \* per session: the widget values of the run's submit click
    rows_to_add,   \* per session: the rows built by the handler
    done,          \* per session: rows of rows_to_add appended so far (the loop position)
    pos,           \* per session, history variable: the sheet row each append landed on
    view,          \* the history table rendered by the latest step
    call,          \* a helper called on its own: the function and its arguments
    ret            \* a helper called on its own: the value returned

vars == <<df, sheet, origin, clicks, pc, sel, form, rows_to_add, done, pos, view, call, ret>>

\* Python's None, as a widget value
None == "None"

\* a function's return value: a list, or None
ReturnsList(xs) == [isNone |-> FALSE, list |-> xs]
ReturnsNone == [isNone |-> TRUE, list |-> <<>>]

(***************************************************************************)
(* Characters                                                              *)
(***************************************************************************)
\* str.isdigit() on one ASCII character
isdigit(c) == c \in 48..57

\* str.lower() on one ASCII character
lower(c) == IF c \in 65..90 THEN c + 32 ELSE c

Lower(s) == [i \in 1..Len(s) |-> lower(s[i])]

\* int() of a run of ASCII digits
RECURSIVE int(_)
int(s) == IF s = <<>> THEN 0 ELSE 10 * int(SubSeq(s, 1, Len(s) - 1)) + (s[Len(s)] - 48)

\* fragment.isdigit(): non-empty and every character a digit
IsDigitRun(s) == s # <<>> /\ \A i \in 1..Len(s) : isdigit(s[i])

(***************************************************************************)
(* natural_key: re.split(r'(\d+)', text) cuts the text at every maximal    *)
(* run of digits and keeps the runs; each fragment becomes an int when     *)
(* isdigit() holds and a lower-cased string otherwise.                     *)
(***************************************************************************)
\* length of the longest prefix of s whose characters are digits (want) or non-digits
RECURSIVE Span(_, _)
Span(s, want) ==
    IF s = <<>> \/ isdigit(s[1]) # want THEN 0 ELSE 1 + Span(Tail(s), want)

\* re.split with the capturing group: non-digit fragment, digit run, non-digit fragment, ...
RECURSIVE re_split(_)
re_split(s) ==
    LET n == Span(s, FALSE)
        rest == SubSeq(s, n + 1, Len(s))
        d == Span(rest, TRUE)
    IN  IF rest = <<>> THEN << SubSeq(s, 1, n) >>
        ELSE << SubSeq(s, 1, n), SubSeq(rest, 1, d) >> \o re_split(SubSeq(rest, d + 1, Len(rest)))

Token(c) == IF IsDigitRun(c) THEN [isint |-> TRUE, n |-> int(c), s |-> <<>>]
            ELSE [isint |-> FALSE, n |-> 0, s |-> Lower(c)]

natural_key_Lexical(text) ==
    LET parts == re_split(text)
    IN  [i \in 1..Len(parts) |-> [isint |-> FALSE, n |-> 0, s |-> Lower(parts[i])]]

natural_key(text) ==
    LET parts == re_split(text)
    IN  [i \in 1..Len(parts) |-> Token(parts[i])]

\* Python's str comparison: by code point, a proper prefix is smaller
RECURSIVE StrCmp(_, _)
StrCmp(x, y) ==
    IF x = <<>> /\ y = <<>> THEN "eq"
    ELSE IF x = <<>> THEN "lt"
    ELSE IF y = <<>> THEN "gt"
    ELSE IF x[1] < y[1] THEN "lt"
    ELSE IF x[1] > y[1] THEN "gt"
    ELSE StrCmp(Tail(x), Tail(y))

\* Python's comparison of two list elements: int with int, str with str, else TypeError
TokenCmp(t, u) ==
    IF t.isint # u.isint THEN "TypeError"
    ELSE IF t.isint THEN (IF t.n < u.n THEN "lt" ELSE IF t.n > u.n THEN "gt" ELSE "eq")
    ELSE StrCmp(t.s, u.s)

\* Python's list comparison: the first differing pair decides, a proper prefix is smaller
RECURSIVE KeyCmp(_, _)
KeyCmp(k, l) ==
    IF k = <<>> /\ l = <<>> THEN "eq"
    ELSE IF k = <<>> THEN "lt"
    ELSE IF l = <<>> THEN "gt"
    ELSE IF k[1] = l[1] THEN KeyCmp(Tail(k), Tail(l))
    ELSE TokenCmp(k[1], l[1])

\* Series.unique(): the distinct values, in order of first appearance
RECURSIVE unique(_)
unique(xs) ==
    IF xs = <<>> THEN <<>>
    ELSE LET front == unique(SubSeq(xs, 1, Len(xs) - 1))
             x == xs[Len(xs)]
         IN  IF \E i \in 1..Len(front) : front[i] = x THEN front ELSE Append(front, x)

\* sorted(values, key=natural_key): a stable sort by key (equal keys keep their order)
RECURSIVE sorted(_)
sorted(xs) ==
    IF xs = <<>> THEN <<>>
    ELSE LET front == sorted(SubSeq(xs, 1, Len(xs) - 1))
             x == xs[Len(xs)]
             after == {i \in 1..Len(front) : KeyCmp(natural_key(x), natural_key(front[i])) = "lt"}
             k == IF after = {} THEN Len(front) + 1
                  ELSE CHOOSE i \in after : \A j \in after : i <= j
         IN  SubSeq(front, 1, k - 1) \o <<x>> \o SubSeq(front, k, Len(front))

(***************************************************************************)
(* get_target_months                                                       *)
(***************************************************************************)
get_target_months_Q2Shifted(p_type, year, qtr, month) ==
    IF p_type = "Year"
    THEN ReturnsList(<<"Jan", "Feb", "Mar", "Apr", "May", "Jun",
                       "Jul", "Aug", "Sep", "Oct", "Nov", "Dec">>)
    ELSE IF p_type = "Quarter"
    THEN CASE qtr = "Q1" -> ReturnsList(<<"Jan", "Feb", "Mar">>)
           [] qtr = "Q2" -> ReturnsList(<<"May", "Jun", "Jul">>)
           [] qtr = "Q3" -> ReturnsList(<<"Jul", "Aug", "Sep">>)
           [] qtr = "Q4" -> ReturnsList(<<"Oct", "Nov", "Dec">>)
           [] OTHER -> ReturnsNone
    ELSE ReturnsList(<<month>>)

get_target_months(p_type, year, qtr, month) ==
    IF p_type = "Year"
    THEN ReturnsList(<<"Jan", "Feb", "Mar", "Apr", "May", "Jun",
                       "Jul", "Aug", "Sep", "Oct", "Nov", "Dec">>)
    ELSE IF p_type = "Quarter"
    THEN CASE qtr = "Q1" -> ReturnsList(<<"Jan", "Feb", "Mar">>)
           [] qtr = "Q2" -> ReturnsList(<<"Apr", "May", "Jun">>)
           [] qtr = "Q3" -> ReturnsList(<<"Jul", "Aug", "Sep">>)
           [] qtr = "Q4" -> ReturnsList(<<"Oct", "Nov", "Dec">>)
           [] OTHER -> ReturnsNone        \* the function falls off its end
    ELSE ReturnsList(<<month>>)

(***************************************************************************)
(* Doubles.  [neg, hi, lo, exp] is (-1)^neg * (hi * 2^27 + lo) * 2^exp:    *)
(* the 53-bit significand is kept in two halves, normalised so that its    *)
(* top bit is set (2^25 <= hi < 2^26); zero is hi = lo = 0.  300.0 is      *)
(* [hi |-> 300 * 2^17, lo |-> 0, exp |-> -44].                             *)
(***************************************************************************)
\* significand bits of a double
Precision == 53

LoBits == 27
LoBase == 2 ^ LoBits
HiTop == 2 ^ (Precision - LoBits)

Zero == [neg |-> FALSE, hi |-> 0, lo |-> 0, exp |-> 0]

Abs(a) == IF a < 0 THEN -a ELSE a

\* floor(log2(x)), x >= 1
RECURSIVE Log2(_)
Log2(x) == IF x < 2 THEN 0 ELSE 1 + Log2(x \div 2)

\* the significand one unit in the last place up
Inc(neg, hi, lo, exp) ==
    IF lo + 1 < LoBase THEN [neg |-> neg, hi |-> hi, lo |-> lo + 1, exp |-> exp]
    ELSE IF hi + 1 < HiTop THEN [neg |-> neg, hi |-> hi + 1, lo |-> 0, exp |-> exp]
    ELSE [neg |-> neg, hi |-> HiTop \div 2, lo |-> 0, exp |-> exp + 1]

\* round half to even: g is the first bit dropped, st whether any later dropped bit is set
RoundEven(neg, hi, lo, exp, g, st) ==
    IF g = 1 /\ (st \/ lo % 2 = 1) THEN Inc(neg, hi, lo, exp)
    ELSE [neg |-> neg, hi |-> hi, lo |-> lo, exp |-> exp]

\* float(a) of an int, |a| < 2^26
FromInt(a) ==
    IF a = 0 THEN Zero
    ELSE LET k == Log2(Abs(a))
         IN  [neg |-> a < 0, hi |-> Abs(a) * 2 ^ (Precision - LoBits - 1 - k), lo |-> 0,
              exp |-> k - (Precision - 1)]

\* Python's a / n on ints (0 < n < 16, |a| < 2^26): the double nearest the quotient
TrueDiv(a, n) ==
    IF a = 0 THEN Zero
    ELSE LET x == Abs(a)
             c == Log2(x) - Log2(n)
             \* 2^k <= x / n < 2^(k+1)
             k == IF (IF c >= 0 THEN x >= n * 2 ^ c ELSE x * 2 ^ (-c) >= n) THEN c ELSE c - 1
             num == x * 2 ^ (Precision - LoBits - 1 - k)
             hi == num \div n
             r1 == num % n
             lo == (r1 * LoBase) \div n
             r2 == (r1 * LoBase) % n
         IN  RoundEven(a < 0, hi, lo, k - (Precision - 1),
                       IF 2 * r2 >= n THEN 1 ELSE 0, 2 * r2 # n)

\* Python's a // n on ints, as a double
FloorDiv(a, n) == FromInt(IF a >= 0 THEN a \div n ELSE -((-a + n - 1) \div n))

\* the significand hi * 2^27 + lo shifted right by d bits, 0 <= d <= 27, with the
\* first bit dropped (g) and whether a later dropped bit is set (st)
ShiftStep(m, d) ==
    IF d = 0 THEN m
    ELSE LET out == m.lo % 2 ^ d
         IN  [hi |-> m.hi \div 2 ^ d,
              lo |-> m.lo \div 2 ^ d + (m.hi % 2 ^ d) * 2 ^ (LoBits - d),
              g  |-> out \div 2 ^ (d - 1),
              st |-> out % 2 ^ (d - 1) # 0 \/ m.g = 1 \/ m.st]

\* the same for any d >= 0
ShiftRight(hi, lo, d) ==
    LET m0 == [hi |-> hi, lo |-> lo, g |-> 0, st |-> FALSE]
    IN  IF d <= LoBits THEN ShiftStep(m0, d)
        ELSE IF d <= 2 * LoBits THEN ShiftStep(ShiftStep(m0, LoBits), d - LoBits)
        ELSE [hi |-> 0, lo |-> 0, g |-> 0, st |-> hi # 0 \/ lo # 0]

\* Python's x + y on doubles of the same sign
FloatAdd(x, y) ==
    IF x = Zero THEN y
    ELSE IF y = Zero THEN x
    ELSE LET big == IF x.exp >= y.exp THEN x ELSE y
             small == IF x.exp >= y.exp THEN y ELSE x
             s == ShiftRight(small.hi, small.lo, big.exp - small.exp)
             lo == big.lo + s.lo
             hi == big.hi + s.hi + lo \div LoBase
         IN  IF hi < HiTop
             THEN RoundEven(big.neg, hi, lo % LoBase, big.exp, s.g, s.st)
             ELSE LET t == ShiftStep([hi |-> hi, lo |-> lo % LoBase, g |-> s.g, st |-> s.st], 1)
                  IN  RoundEven(big.neg, t.hi, t.lo, big.exp + 1, t.g, t.st)

\* Python's sum() of a list of doubles of the same sign
RECURSIVE FloatSum(_)
FloatSum(xs) ==
    IF xs = <<>> THEN Zero ELSE FloatAdd(FloatSum(SubSeq(xs, 1, Len(xs) - 1)), xs[Len(xs)])

\* the handler's split: lines 239-240
split_amount_Floor(amount_paid_user, target_months) ==
    IF Len(target_months) > 0 THEN FloorDiv(amount_paid_user, Len(target_months))
    ELSE FromInt(amount_paid_user)

split_amount(amount_paid_user, target_months) ==
    IF Len(target_months) > 0 THEN TrueDiv(amount_paid_user, Len(target_months))
    ELSE FromInt(amount_paid_user)

(***************************************************************************)
(* Bounds                                                                  *)
(***************************************************************************)
\* browser sessions using the portal at once
NumSessions == 2

\* submit clicks handled in one behaviour, over all sessions
MaxSubmits == 2

Sessions == 1..NumSessions

(***************************************************************************)
(* The roster (data.csv after the load at lines 116-122) and the widgets   *)
(***************************************************************************)
MONTHLY_FEE == 300

MONTHS == <<"Jan", "Feb", "Mar", "Apr", "May", "Jun", "Jul", "Aug", "Sep", "Oct", "Nov", "Dec">>

QUARTERS == <<"Q1", "Q2", "Q3", "Q4">>

\* line 175: [str(y) for y in range(2022, 2029)]
years == {"2022", "2023", "2024", "2025", "2026", "2027", "2028"}

Range(f) == {f[i] : i \in DOMAIN f}

\* lanes "1", "2"; plots "5", "7", "10", "A5"
Lane1 == <<49>>
Lane2 == <<50>>
Plot5 == <<53>>
Plot7 == <<55>>
Plot10 == <<49, 48>>
PlotA5 == <<65, 53>>

Resident(lane, plot, name, dues) ==
    [Lane |-> lane, Plot |-> plot, Name |-> name, PastDues |-> dues]

\* rosters with plot identifiers unique within a lane: in the first no plot identifier
\* occurs twice, in the second plot "5" exists in lane "1" and in lane "2"
RosterDistinct ==
    << Resident(Lane1, PlotA5, "Asha", 1200), Resident(Lane1, Plot10, "Bala", 0),
       Resident(Lane2, Plot7, "Chitra", 0) >>

RosterShared ==
    << Resident(Lane1, Plot5, "Asha", 1200), Resident(Lane2, Plot5, "Bala", 0),
       Resident(Lane2, Plot10, "Chitra", 0) >>

Rosters == {RosterDistinct, RosterShared}

Column(d, col) == [i \in 1..Len(d) |-> d[i][col]]

\* line 138
unique_lanes(d) == sorted(unique(Column(d, "Lane")))

\* line 142
filtered_plots(d, selected_lane) ==
    sorted(unique(Column(SelectSeq(d, LAMBDA r : r.Lane = selected_lane), "Plot")))

\* line 146: df[df['Plot No.'] == plot_no].iloc[0]
resident_data(d, plot_no) == SelectSeq(d, LAMBDA r : r.Plot = plot_no)[1]

\* lines 137-162: what the identity row of the page holds after a run
Selection(d, selected_lane, plot_no) ==
    LET r == resident_data(d, plot_no)
    IN  [selected_lane |-> selected_lane, plot_no |-> plot_no,
         resident_name |-> r.Name, overdue |-> r.PastDues > 0]

\* a selectbox starts on its first option
DefaultSelection(d) ==
    LET lane == unique_lanes(d)[1]
    IN  Selection(d, lane, filtered_plots(d, lane)[1])

\* lines 185-187
auto_amount(period_type) ==
    IF period_type = "Year" THEN MONTHLY_FEE * 12
    ELSE IF period_type = "Quarter" THEN MONTHLY_FEE * 3
    ELSE MONTHLY_FEE * 1

\* lines 170-182: the period widgets; the quarter and the month box exist only for their type
Periods ==
    { [period_type |-> "Year", selected_qtr |-> None, selected_month |-> None] }
    \cup { [period_type |-> "Quarter", selected_qtr |-> q, selected_month |-> None] :
             q \in Range(QUARTERS) }
    \cup { [period_type |-> "Month", selected_qtr |-> None, selected_month |-> m] :
             m \in Range(MONTHS) }

Form(p, year, amount, txn, file, confirm) ==
    [period_type |-> p.period_type, selected_qtr |-> p.selected_qtr,
     selected_month |-> p.selected_month, selected_year |-> year,
     amount_paid_user |-> amount, txn_id |-> txn, uploaded_file |-> file,
     paid_confirm |-> confirm]

NoForm == Form([period_type |-> None, selected_qtr |-> None, selected_month |-> None],
              None, 0, "", FALSE, FALSE)

(***************************************************************************)
(* The ledger sheet                                                        *)
(***************************************************************************)
\* lines 250-254: one row of the ledger
Row(now, plot_no, resident_name, m, w, split, final_txn, receipt_status, verified) ==
    [Date |-> now, PlotNo |-> plot_no, Name |-> resident_name,
     Period |-> <<m, w.selected_year>>, Amount |-> split, TxnId |-> final_txn,
     Receipt |-> receipt_status, Note |-> <<"Part of", w.period_type>>,
     Verified |-> verified]

\* line 244: the clock is read once per submission; its value is left open
current_time == "now"

\* lines 242-255: the rows the handler builds for an accepted submission
BuildRows_Reversed(now, selection, w, target_months) ==
    LET split == split_amount(w.amount_paid_user, target_months)
        receipt_status == IF w.uploaded_file THEN "Uploaded" ELSE "None"
        final_txn == IF w.txn_id # "" THEN w.txn_id ELSE "Screenshot"
        n == Len(target_months)
    IN  [i \in 1..n |->
            Row(now, selection.plot_no, selection.resident_name,
                target_months[n + 1 - i], w, split, final_txn, receipt_status, "Pending")]

BuildRows(now, selection, w, target_months) ==
    LET split == split_amount(w.amount_paid_user, target_months)
        receipt_status == IF w.uploaded_file THEN "Uploaded" ELSE "None"
        final_txn == IF w.txn_id # "" THEN w.txn_id ELSE "Screenshot"
    IN  [i \in 1..Len(target_months) |->
            Row(now, selection.plot_no, selection.resident_name,
                target_months[i], w, split, final_txn, receipt_status, "Pending")]

\* sheet.append_row(row): the store adds the row below the last one
append_row_Overwrite(sh, row) ==
    IF sh = <<>> THEN <<row>> ELSE [sh EXCEPT ![Len(sh)] = row]

append_row_Merged(sh, row) ==
    IF sh # <<>> /\ sh[Len(sh)].PlotNo = row.PlotNo /\ sh[Len(sh)].Date = row.Date
    THEN [sh EXCEPT ![Len(sh)] = row]
    ELSE Append(sh, row)

append_row(sh, row) == Append(sh, row)

\* lines 231-235: the two validation errors, or "ok" for an accepted form
validation_ProofOptional(w) ==
    IF ~w.paid_confirm THEN "Please confirm the checkbox." ELSE "ok"

validation(w) ==
    IF ~w.paid_confirm THEN "Please confirm the checkbox."
    ELSE IF w.txn_id = "" /\ ~w.uploaded_file THEN "Provide UTR or Screenshot."
    ELSE "ok"

\* lines 264-287: what the history expander renders
View(kind, index, rows) == [kind |-> kind, index |-> index, rows |-> rows]

NoView == [session |-> 0, table |-> View("none", <<>>, <<>>)]

\* the rows of the sheet whose plot is plot_no, by sheet row number (line 272)
my_history(data, plot_no) ==
    LET hit == {i \in 1..Len(data) : data[i].PlotNo = plot_no}
        RECURSIVE Asc(_)
        Asc(S) == IF S = {} THEN <<>>
                  ELSE LET m == CHOOSE i \in S : \A j \in S : i <= j
                       IN  <<m>> \o Asc(S \ {m})
    IN  Asc(hit)

\* lines 275-281: the columns shown
Shown(row) ==
    [Date |-> row.Date, Period |-> row.Period, Amt |-> row.Amount, UTR |-> row.TxnId,
     Status |-> row.Verified]

history(data, plot_no) ==
    IF data = <<>> THEN View("Empty ledger.", <<>>, <<>>)
    ELSE LET mine == my_history(data, plot_no)
         IN  IF mine = <<>> THEN View("No records.", <<>>, <<>>)
             ELSE View("table", mine, [k \in 1..Len(mine) |-> Shown(data[mine[k]])])

Busy(s) == pc[s] = "recording"

Blank == [s \in Sessions |-> <<>>]

\* a row verified out of band before the behaviour starts
EarlierRow(r) ==
    Row("earlier", r.Plot, r.Name, "Jan",
        Form([period_type |-> "Month", selected_qtr |-> None, selected_month |-> "Jan"],
             "2023", MONTHLY_FEE, "UTR0", FALSE, TRUE),
        FromInt(MONTHLY_FEE), "UTR0", "None", "Verified")

Start(olds, chosen) ==
    /\ df \in Rosters
    /\ \E old \in olds :
         /\ sheet = [i \in 1..old |-> EarlierRow(df[1])]
         /\ origin = [i \in 1..old |-> [lane |-> df[1].Lane, plot |-> df[1].Plot]]
    /\ clicks = 0
    /\ pc = [s \in Sessions |-> "ready"]
    /\ sel = [s \in Sessions |->
                IF chosen THEN LET r == df[((s - 1) % Len(df)) + 1]
                               IN  Selection(df, r.Lane, r.Plot)
                ELSE DefaultSelection(df)]
    /\ form = [s \in Sessions |-> NoForm]
    /\ rows_to_add = Blank
    /\ done = [s \in Sessions |-> 0]
    /\ pos = Blank
    /\ view = NoView
    /\ call = [fn |-> "none"]
    /\ ret = [fn |-> "none"]

\* the page of every session as first drawn, the sheet holding one earlier row
Init == Start({1}, FALSE)

\* several residents at once: session s has picked the lane and plot of the roster's
\* s-th resident
InitResidents == Start({1}, TRUE)

\* one resident: the page as first drawn, over an empty sheet or one earlier row
InitOne == Start({0, 1}, FALSE)

\* lines 137-147: the resident picks a lane and a plot of that lane; the page is redrawn
Select(s, lane, plot) ==
    /\ ~Busy(s)
    /\ lane \in Range(unique_lanes(df))
    /\ plot \in Range(filtered_plots(df, lane))
    /\ sel' = [sel EXCEPT ![s] = Selection(df, lane, plot)]
    /\ pc' = [pc EXCEPT ![s] = "ready"]
    /\ form' = [form EXCEPT ![s] = NoForm]
    /\ rows_to_add' = [rows_to_add EXCEPT ![s] = <<>>]
    /\ done' = [done EXCEPT ![s] = 0]
    /\ pos' = [pos EXCEPT ![s] = <<>>]
    /\ view' = NoView
    /\ UNCHANGED <<df, sheet, origin, clicks, call, ret>>

\* lines 230-255: the submit click with the widget values w.  A rejected form shows its
\* error; an accepted one builds rows_to_add, unless opening the sheet (line 246) raises.
Submit(s, w) ==
    /\ ~Busy(s)
    /\ clicks < MaxSubmits
    /\ clicks' = clicks + 1
    /\ form' = [form EXCEPT ![s] = w]
    /\ done' = [done EXCEPT ![s] = 0]
    /\ pos' = [pos EXCEPT ![s] = <<>>]
    /\ view' = NoView
    /\ IF validation(w) # "ok"
       THEN /\ pc' = [pc EXCEPT ![s] = validation(w)]
            /\ rows_to_add' = [rows_to_add EXCEPT ![s] = <<>>]
       ELSE LET target_months == get_target_months(w.period_type, w.selected_year,
                                                    w.selected_qtr, w.selected_month)
            IN  \E opened \in BOOLEAN :
                  IF target_months.isNone \/ ~opened
                  THEN \* len(None) or get_google_sheet() raised: caught at line 260
                       /\ pc' = [pc EXCEPT ![s] = "Error"]
                       /\ rows_to_add' = [rows_to_add EXCEPT ![s] = <<>>]
                  ELSE LET rows == BuildRows(current_time, sel[s], w, target_months.list)
                       IN  /\ rows_to_add' = [rows_to_add EXCEPT ![s] = rows]
                           /\ pc' = [pc EXCEPT ![s] =
                                        IF rows = <<>> THEN "Saved!" ELSE "recording"]
    /\ UNCHANGED <<df, sheet, origin, sel, call, ret>>

\* line 257, one turn of the loop: the next row is appended; after the last, line 258
AppendRow(s) ==
    /\ Busy(s)
    /\ sheet' = append_row(sheet, rows_to_add[s][done[s] + 1])
    /\ origin' = Append(origin, [lane |-> sel[s].selected_lane, plot |-> sel[s].plot_no])
    /\ pos' = [pos EXCEPT ![s] = Append(@, Len(sheet) + 1)]
    /\ done' = [done EXCEPT ![s] = @ + 1]
    /\ pc' = [pc EXCEPT ![s] = IF done[s] + 1 = Len(rows_to_add[s]) THEN "Saved!"
                                ELSE "recording"]
    /\ view' = NoView
    /\ UNCHANGED <<df, clicks, sel, form, rows_to_add, call, ret>>

\* line 257 raises (the store is unreachable or rejects the write): line 260 shows the
\* error and the loop is left
AppendFail_RollsBack(s) ==
    /\ Busy(s)
    /\ pc' = [pc EXCEPT ![s] = "Error"]
    /\ sheet' = SelectSeq(sheet, LAMBDA r : r \notin Range(rows_to_add[s]))
    /\ origin' = SubSeq(origin, 1, Len(sheet'))
    /\ view' = NoView
    /\ UNCHANGED <<df, clicks, sel, form, rows_to_add, done, pos, call, ret>>

AppendFail(s) ==
    /\ Busy(s)
    /\ pc' = [pc EXCEPT ![s] = "Error"]
    /\ view' = NoView
    /\ UNCHANGED <<df, sheet, origin, clicks, sel, form, rows_to_add, done, pos, call, ret>>

\* lines 264-287: the history expander at the end of a run
History(s) ==
    /\ ~Busy(s)
    /\ \E read \in BOOLEAN :
         view' = [session |-> s, table |->
                    IF read THEN history(sheet, sel[s].plot_no)
                    ELSE View("Loading...", <<>>, <<>>)]
    /\ UNCHANGED <<df, sheet, origin, clicks, pc, sel, form, rows_to_add, done, pos, call, ret>>

\* the submissions tried with several sessions
Forms ==
    { Form([period_type |-> "Quarter", selected_qtr |-> "Q2", selected_month |-> None],
           "2024", 900, "UTR1", FALSE, TRUE),
      Form([period_type |-> "Month", selected_qtr |-> None, selected_month |-> "Mar"],
           "2025", 100, "", TRUE, TRUE),
      Form([period_type |-> "Quarter", selected_qtr |-> "Q4", selected_month |-> None],
           "2024", 900, "", FALSE, TRUE) }

\* every submission one resident can make
AllForms ==
    UNION { { Form(p, year, amount, txn, file, confirm) :
                year \in years, amount \in {auto_amount(p.period_type), 100},
                txn \in {"", "UTR1"}, file \in BOOLEAN, confirm \in BOOLEAN } :
            p \in Periods }

\* every session from the page as first drawn: it picks lanes and plots, submits, looks
\* at its history
Next ==
    \E s \in Sessions :
        \/ \E lane \in Range(Column(df, "Lane")), plot \in Range(Column(df, "Plot")) :
              Select(s, lane, plot)
        \/ \E w \in Forms : Submit(s, w)
        \/ AppendRow(s)
        \/ AppendFail(s)
        \/ History(s)

Spec == Init /\ [][Next]_vars

\* several residents, each on its own plot: they submit, and their appends interleave
NextResidents ==
    \E s \in Sessions :
        \/ \E w \in Forms : Submit(s, w)
        \/ AppendRow(s)
        \/ AppendFail(s)
        \/ History(s)

SpecResidents == InitResidents /\ [][NextResidents]_vars

\* one resident picks a lane and a plot, then submits once, with any widget values
NextOne ==
    \/ \E lane \in Range(Column(df, "Lane")), plot \in Range(Column(df, "Plot")) :
          clicks = 0 /\ Select(1, lane, plot)
    \/ \E w \in AllForms : clicks = 0 /\ Submit(1, w)
    \/ AppendRow(1)
    \/ AppendFail(1)

SpecOne == InitOne /\ [][NextOne]_vars

(***************************************************************************)
(* The helpers called on their own: the arguments are drawn at the start   *)
(* and one step applies the function.                                      *)
(***************************************************************************)
\* longest identifier drawn, in characters
MaxLen == 3

\* largest amount typed into the amount box, either side of zero
MaxAmount == 30

\* "0", "1", "2", "A", "a"
Alphabet == {48, 49, 50, 65, 97}

RECURSIVE TextsOfLen(_)
TextsOfLen(n) ==
    IF n = 0 THEN {<<>>} ELSE {Append(t, c) : t \in TextsOfLen(n - 1), c \in Alphabet}

\* "Plot 2", "Plot 10", "Plot 10A", "lane1", "Lane1"
TextPlot2 == <<80, 108, 111, 116, 32, 50>>
TextPlot10 == <<80, 108, 111, 116, 32, 49, 48>>
TextPlot10A == <<80, 108, 111, 116, 32, 49, 48, 65>>
Textlane1 == <<108, 97, 110, 101, 49>>
TextLane1 == <<76, 97, 110, 101, 49>>

Texts ==
    UNION {TextsOfLen(n) : n \in 0..MaxLen}
    \cup {TextPlot2, TextPlot10, TextPlot10A, Textlane1, TextLane1}

\* "2", "10", "010", "10A", "10a", "A", "a", "A2", ""
Probes == { <<50>>, <<49, 48>>, <<48, 49, 48>>, <<49, 48, 65>>, <<49, 48, 97>>,
            <<65>>, <<97>>, <<65, 50>>, <<>> }

\* the amount box takes any integer (line 221)
Amounts == (-MaxAmount..MaxAmount) \cup {auto_amount(t) : t \in {"Year", "Quarter", "Month"}}

\* the month lists get_target_months returns, and the empty list
MonthLists ==
    {<<>>} \cup {get_target_months(p.period_type, "2024", p.selected_qtr, p.selected_month).list :
                   p \in Periods}

Calls ==
    { [fn |-> "get_target_months", p_type |-> t, year |-> y, qtr |-> q, month |-> m] :
        t \in {"Year", "Quarter", "Month"}, y \in years,
        q \in Range(QUARTERS) \cup {None}, m \in Range(MONTHS) \cup {None} }
    \cup { [fn |-> "split_amount", amount_paid_user |-> a, target_months |-> ms] :
             a \in Amounts, ms \in MonthLists }
    \cup { [fn |-> "natural_key", text |-> t] : t \in Texts }
    \cup { [fn |-> "sorted", values |-> <<a, b, c>>] : a, b, c \in Probes }

InitPure ==
    /\ df = RosterDistinct
    /\ sheet = <<>>
    /\ origin = <<>>
    /\ clicks = 0
    /\ pc = [s \in Sessions |-> "ready"]
    /\ sel = [s \in Sessions |-> DefaultSelection(df)]
    /\ form = [s \in Sessions |-> NoForm]
    /\ rows_to_add = Blank
    /\ done = [s \in Sessions |-> 0]
    /\ pos = Blank
    /\ view = NoView
    /\ call \in Calls
    /\ ret = [fn |-> "none"]

Unchanged == UNCHANGED <<df, sheet, origin, clicks, pc, sel, form, rows_to_add, done, pos,
                         view, call>>

Call_get_target_months ==
    /\ call.fn = "get_target_months" /\ ret.fn = "none"
    /\ ret' = [fn |-> call.fn,
               value |-> get_target_months(call.p_type, call.year, call.qtr, call.month)]
    /\ Unchanged

\* lines 238-255 on their own: the split, the amounts of the rows built, and their sum
Call_split_amount ==
    /\ call.fn = "split_amount" /\ ret.fn = "none"
    /\ LET w == Form([period_type |-> None, selected_qtr |-> None, selected_month |-> None],
                     "2024", call.amount_paid_user, "UTR1", FALSE, TRUE)
           rows == BuildRows(current_time, sel[1], w, call.target_months)
           amounts == [i \in 1..Len(rows) |-> rows[i].Amount]
       IN  ret' = [fn |-> call.fn,
                   split |-> split_amount(call.amount_paid_user, call.target_months),
                   amounts |-> amounts,
                   total |-> FloatSum(amounts)]
    /\ Unchanged

Call_natural_key ==
    /\ call.fn = "natural_key" /\ ret.fn = "none"
    /\ ret' = [fn |-> call.fn, key |-> natural_key(call.text)]
    /\ Unchanged

Call_sorted ==
    /\ call.fn = "sorted" /\ ret.fn = "none"
    /\ ret' = [fn |-> call.fn, value |-> sorted(call.values)]
    /\ Unchanged

NextPure ==
    \/ Call_get_target_months
    \/ Call_split_amount
    \/ Call_natural_key
    \/ Call_sorted

SpecPure == InitPure /\ [][NextPure]_vars

(***************************************************************************)
(* Properties of the helpers                                               *)
(***************************************************************************)
\* the months of quarter q of the calendar
QuarterMonths(q) ==
    LET k == CHOOSE i \in 1..Len(QUARTERS) : QUARTERS[i] = q
    IN  SubSeq(MONTHS, 3 * k - 2, 3 * k)

\* the calendar months of a period
CalendarMonths(p_type, qtr, month) ==
    IF p_type = "Year" THEN MONTHS
    ELSE IF p_type = "Quarter" THEN QuarterMonths(qtr)
    ELSE <<month>>

\* C7: get_target_months returns the calendar-ordered month labels of the period and
\* nothing else: Year gives Jan..Dec, Quarter Qk the three contiguous months of that
\* quarter, Month M the list [M]; the result is the same for every year.
C7_TargetMonths ==
    ret.fn = "get_target_months" /\ (call.p_type = "Quarter" => call.qtr \in Range(QUARTERS))
    => /\ ~ret.value.isNone
       /\ ret.value.list = CalendarMonths(call.p_type, call.qtr, call.month)
       /\ call.p_type = "Year" => Len(ret.value.list) = 12
       /\ call.p_type = "Quarter" =>
            /\ Len(ret.value.list) = 3
            /\ \E i \in 1..10 : ret.value.list = SubSeq(MONTHS, i, i + 2)
            /\ call.qtr = "Q1" => ret.value.list = <<"Jan", "Feb", "Mar">>
            /\ call.qtr = "Q2" => ret.value.list = <<"Apr", "May", "Jun">>
            /\ call.qtr = "Q3" => ret.value.list = <<"Jul", "Aug", "Sep">>
            /\ call.qtr = "Q4" => ret.value.list = <<"Oct", "Nov", "Dec">>
       /\ call.p_type = "Month" => ret.value.list = <<call.month>>
       /\ \A y \in years :
            get_target_months(call.p_type, y, call.qtr, call.month) = ret.value

C7_Witness ==
    /\ ret.fn = "get_target_months"
    /\ call.p_type = "Quarter" /\ call.qtr = "Q2" /\ call.year = "2028"
    /\ ret.value.list = <<"Apr", "May", "Jun">>

\* character i of s is a zero that leads a longer run of digits
LeadingZero(s, i) ==
    /\ s[i] = 48
    /\ i < Len(s) /\ s[i + 1] \in 48..57
    /\ \A j \in 1..i : (\A m \in j..i : s[m] \in 48..57) => s[j] = 48

\* the identifier with its letters folded to lower case and every run of digits written
\* without leading zeros
RECURSIVE NormFrom(_, _)
NormFrom(s, i) ==
    IF i > Len(s) THEN <<>>
    ELSE IF LeadingZero(s, i) THEN NormFrom(s, i + 1)
    ELSE <<IF s[i] \in 65..90 THEN s[i] + 32 ELSE s[i]>> \o NormFrom(s, i + 1)

Norm(s) == NormFrom(s, 1)

Before(a, b) == KeyCmp(natural_key(a), natural_key(b))

\* C8: natural_key orders identifiers totally, digit runs as numbers and the other
\* fragments without regard to case: any two keys compare without a type error, the
\* comparison is antisymmetric and transitive, key("Plot 2") < key("Plot 10") <
\* key("Plot 10A"), key("lane1") = key("Lane1"), two keys are equal exactly when the
\* identifiers are identical after normalisation, and sorted() lists values by that order.
C8_NaturalOrder ==
    /\ ret.fn = "natural_key" =>
         /\ \A b \in Texts :
              LET l == natural_key(b)
                  c == KeyCmp(ret.key, l)
              IN  /\ c \in {"lt", "eq", "gt"}
                  /\ (c = "eq") = (ret.key = l)
                  /\ (c = "lt") = (KeyCmp(l, ret.key) = "gt")
                  /\ (ret.key = l) = (Norm(call.text) = Norm(b))
         /\ \A b, c \in Probes :
              KeyCmp(ret.key, natural_key(b)) # "gt" /\ Before(b, c) # "gt"
              => KeyCmp(ret.key, natural_key(c)) # "gt"
         /\ call.text = TextPlot2 => KeyCmp(ret.key, natural_key(TextPlot10)) = "lt"
         /\ call.text = TextPlot10 => KeyCmp(ret.key, natural_key(TextPlot10A)) = "lt"
         /\ call.text = Textlane1 => ret.key = natural_key(TextLane1)
    /\ ret.fn = "sorted" =>
         /\ Len(ret.value) = Len(call.values)
         /\ \A x \in Probes :
              Cardinality({i \in DOMAIN ret.value : ret.value[i] = x})
              = Cardinality({i \in DOMAIN call.values : call.values[i] = x})
         /\ \A i, j \in DOMAIN ret.value : i < j => Before(ret.value[i], ret.value[j]) # "gt"

C8_Witness ==
    /\ ret.fn = "natural_key" /\ call.text = Textlane1
    /\ ret.key = natural_key(TextLane1)
    /\ Textlane1 # TextLane1

\* v is the double nearest the quotient a / n
Nearest(v, a, n) ==
    IF a = 0 THEN v = Zero
    ELSE /\ v # Zero
         /\ v.neg = (a < 0)
         /\ v.hi \in (HiTop \div 2)..(HiTop - 1)
         /\ v.lo \in 0..(LoBase - 1)
         /\ LET sh == -v.exp - LoBits
            IN  /\ sh \in 0..30
                /\ Abs(a) <= 2 ^ 30 \div 2 ^ sh
                /\ LET d == Abs(a) * 2 ^ sh - n * v.hi
                   IN  /\ d \in 0..n
                       /\ Abs(d * LoBase - n * v.lo) <= n \div 2

\* the double x is within n units in its last place of the integer a
WithinRounding(x, a, n) ==
    IF a = 0 THEN x = Zero
    ELSE LET y == FromInt(a)
             e == y.exp - x.exp
         IN  /\ x # Zero
             /\ x.neg = y.neg
             /\ e \in {0, 1}
             /\ y.hi * 2 ^ e - x.hi \in -1..1
             /\ Abs((y.hi * 2 ^ e - x.hi) * LoBase - x.lo) <= n

\* what C6 says of a non-empty and of an empty month list, apart from the sum
SplitShape ==
    LET a == call.amount_paid_user
        n == Len(call.target_months)
    IN  IF n > 0
        THEN /\ Len(ret.amounts) = n
             /\ \A i \in 1..n : ret.amounts[i] = ret.split
             /\ Nearest(ret.split, a, n)
        ELSE /\ ret.split = FromInt(a)
             /\ ret.amounts = <<>>

\* C6 as stated: the per-month amounts all equal amountPaid / count and their sum equals
\* the amount paid.
C6_SumEqualsAmount ==
    ret.fn = "split_amount" =>
        /\ SplitShape
        /\ call.target_months # <<>> => ret.total = FromInt(call.amount_paid_user)

\* C6, amended: the per-month amounts all equal the double nearest amountPaid / count;
\* their sum equals the amount paid when the amount is a multiple of the count, and is
\* otherwise within count units in the last place of it; for an empty month list the
\* split is the amount itself and nothing is divided.
C6_SumWithinRounding ==
    ret.fn = "split_amount" =>
        /\ SplitShape
        /\ call.target_months # <<>> =>
             LET a == call.amount_paid_user
                 n == Len(call.target_months)
             IN  /\ a % n = 0 => ret.total = FromInt(a)
                 /\ WithinRounding(ret.total, a, n)

C6_Witness ==
    /\ ret.fn = "split_amount"
    /\ call.amount_paid_user = 7 /\ Len(call.target_months) = 12
    /\ ret.total # FromInt(7)
    /\ WithinRounding(ret.total, 7, 12)

(***************************************************************************)
(* Properties of the submit handler and the history view                   *)
(***************************************************************************)
\* the calendar months of the period of the form w
FormMonths(w) == CalendarMonths(w.period_type, w.selected_qtr, w.selected_month)

\* 12, 3 or 1
RowsDue(w) ==
    IF w.period_type = "Year" THEN 12 ELSE IF w.period_type = "Quarter" THEN 3 ELSE 1

\* the form has the confirmation and a transaction reference or a proof file
HasProof(w) == w.paid_confirm /\ (w.txn_id # "" \/ w.uploaded_file)

\* C1: an accepted submission whose appends all succeed grows the ledger by exactly one
\* row per month of the period (12, 3 or 1), in calendar order, each with the selected
\* plot, the label <Month> Y, the same amount and Verified = "Pending"; Quarter Q2 2024
\* with 900 paid gives Apr 2024, May 2024, Jun 2024 of 300 each.
C1_AcceptedRows ==
    \A s \in Sessions :
        pc[s] = "Saved!" =>
            LET w == form[s]
                n == RowsDue(w)
                b == Len(sheet) - n
            IN  /\ HasProof(w)
                /\ Len(FormMonths(w)) = n
                /\ b >= 0
                /\ pos[s] = [k \in 1..n |-> b + k]
                /\ \A k \in 1..n :
                     /\ sheet[b + k].PlotNo = sel[s].plot_no
                     /\ sheet[b + k].Period = <<FormMonths(w)[k], w.selected_year>>
                     /\ sheet[b + k].Amount = sheet[b + 1].Amount
                     /\ sheet[b + k].Verified = "Pending"
                /\ (w.period_type = "Quarter" /\ w.selected_qtr = "Q2"
                    /\ w.selected_year = "2024" /\ w.amount_paid_user = 900)
                   => /\ [k \in 1..3 |-> sheet[b + k].Period]
                         = << <<"Apr", "2024">>, <<"May", "2024">>, <<"Jun", "2024">> >>
                      /\ \A k \in 1..3 : sheet[b + k].Amount = FromInt(300)

C1_Witness ==
    /\ pc[1] = "Saved!"
    /\ form[1].period_type = "Quarter" /\ form[1].selected_qtr = "Q2"
    /\ form[1].selected_year = "2024" /\ form[1].amount_paid_user = 900
    /\ sel[1].plot_no = PlotA5
    /\ Len(sheet) = 4
    /\ sheet[2].Period = <<"Apr", "2024">> /\ sheet[4].Amount = FromInt(300)

ValidationErrors == {"Please confirm the checkbox.", "Provide UTR or Screenshot."}

\* C2: a submission without the confirmation, or with neither a transaction reference
\* nor a proof file, is rejected with a validation error and appends no row: the ledger
\* is unchanged by the click and by everything that follows it, whatever the period and
\* the amount.
C2_RejectedAppendsNothing ==
    [][ /\ (clicks' # clicks /\ ~HasProof(form'[1]))
           => /\ sheet' = sheet
              /\ pc'[1] \in ValidationErrors
              /\ rows_to_add'[1] = <<>>
        /\ (clicks > 0 /\ ~HasProof(form[1]) /\ clicks' = clicks) => sheet' = sheet ]_vars

C2_Witness ==
    /\ pc[1] = "Provide UTR or Screenshot."
    /\ form[1].period_type = "Year" /\ form[1].amount_paid_user = 3600
    /\ form[1].paid_confirm /\ form[1].txn_id = "" /\ ~form[1].uploaded_file
    /\ Len(sheet) = 1

\* C3: the ledger is append-only: whatever step is taken (a submission, an append, a
\* failure, a history view), every row that was in the ledger is still there, unmodified
\* and in its place, and every row added has Verified = "Pending".
C3_AppendOnly ==
    [][ /\ Len(sheet') >= Len(sheet)
        /\ \A i \in 1..Len(sheet) : sheet'[i] = sheet[i]
        /\ \A i \in (Len(sheet) + 1)..Len(sheet') : sheet'[i].Verified = "Pending" ]_vars

C3_Witness ==
    /\ Len(sheet) >= 4
    /\ sheet[1].Verified = "Verified"
    /\ \A i \in 2..Len(sheet) : sheet[i].Verified = "Pending"
    /\ view.table.kind = "table"

\* C4: after an append fails the attempt is not retried: the error is shown and no
\* further row of that attempt is appended; the rows appended before the failure stay
\* in the ledger, a proper prefix of the attempt's month rows in calendar order; a
\* resubmission appends all its rows again, whatever the ledger already holds.
C4_FailedAppendNotRetried ==
    /\ [](\A s \in Sessions :
            /\ (pc[s] = "Error" /\ rows_to_add[s] # <<>>) =>
                 /\ Len(pos[s]) < Len(rows_to_add[s])
                 /\ \A k \in 1..Len(pos[s]) :
                      /\ pos[s][k] \in 1..Len(sheet)
                      /\ sheet[pos[s][k]] = rows_to_add[s][k]
                      /\ sheet[pos[s][k]].Period = <<FormMonths(form[s])[k], form[s].selected_year>>
                      /\ k > 1 => pos[s][k - 1] < pos[s][k]
            /\ pc[s] = "Saved!" =>
                 /\ Len(pos[s]) = RowsDue(form[s])
                 /\ \A k \in 1..Len(pos[s]) :
                      pos[s][k] \in 1..Len(sheet) /\ sheet[pos[s][k]] = rows_to_add[s][k])
    /\ [][\A s \in Sessions :
            (pc[s] = "Error" /\ clicks' = clicks)
            => pc'[s] = "Error" /\ pos'[s] = pos[s] /\ done'[s] = done[s]]_vars

\* the resident of session s failed after one row and submitted the same quarter again
C4_Witness ==
    \E s \in Sessions :
        /\ \A t \in Sessions \ {s} : form[t] = NoForm
        /\ clicks = 2
        /\ pc[s] = "Saved!" /\ Len(pos[s]) = 3
        /\ Len(sheet) = 5
        /\ sheet[2] = sheet[3]
        /\ origin[2] = origin[3]

RECURSIVE Appended(_)
Appended(S) ==
    IF S = {} THEN 0 ELSE LET s == CHOOSE x \in S : TRUE IN Len(pos[s]) + Appended(S \ {s})

\* C5: with atomic appends and sessions writing at once, every row appended by a
\* submission is in the ledger intact and at a place of its own, the rows of one
\* submission stand in calendar order, a submission whose appends all succeeded has all
\* its rows there, and no row is written twice; rows of different submissions may
\* interleave.
C5_ConcurrentAppends ==
    /\ \A s \in Sessions :
         /\ Len(pos[s]) = done[s]
         /\ done[s] <= Len(rows_to_add[s])
         /\ \A k \in 1..Len(pos[s]) :
              /\ pos[s][k] \in 1..Len(sheet)
              /\ sheet[pos[s][k]] = rows_to_add[s][k]
              /\ sheet[pos[s][k]].Period[1] = FormMonths(form[s])[k]
              /\ \A j \in 1..(k - 1) : pos[s][j] < pos[s][k]
         /\ pc[s] = "Saved!" => Len(pos[s]) = RowsDue(form[s])
    /\ \A s, t \in Sessions : s # t => Range(pos[s]) \cap Range(pos[t]) = {}
    /\ Cardinality({s \in Sessions : form[s] # NoForm}) = clicks
       => Len(sheet) = Cardinality({i \in 1..Len(sheet) : sheet[i].Date # current_time})
                       + Appended(Sessions)

C5_Witness ==
    \E s, t \in Sessions :
        /\ pc[s] = "Saved!" /\ pc[t] = "Saved!"
        /\ Len(pos[s]) = 3 /\ Len(pos[t]) = 3
        /\ pos[s][1] < pos[t][1] /\ pos[t][1] < pos[s][2]
        /\ pos[s][3] < pos[t][3]

\* the resident a session has selected
Selected(s) == [lane |-> sel[s].selected_lane, plot |-> sel[s].plot_no]

\* C9: the history view shows exactly the ledger rows recorded for the plot of the
\* selected resident, in ledger order, and no row submitted for another plot of the
\* roster.
C9_OwnHistoryOnly ==
    (view.session \in Sessions /\ view.table.kind # "Loading...") =>
        LET s == view.session
            shown == view.table.index
        IN  /\ Range(shown) = {i \in 1..Len(sheet) : origin[i] = Selected(s)}
            /\ \A j, k \in 1..Len(shown) : j < k => shown[j] < shown[k]
            /\ \A k \in 1..Len(shown) : view.table.rows[k] = Shown(sheet[shown[k]])

\* the resident of lane "2", plot "5" is shown a row submitted for lane "1", plot "5"
C9_Witness ==
    /\ view.session \in Sessions
    /\ view.table.kind = "table"
    /\ Selected(view.session) = [lane |-> Lane2, plot |-> Plot5]
    /\ \E k \in 1..Len(view.table.index) :
         /\ origin[view.table.index[k]] = [lane |-> Lane1, plot |-> Plot5]
         /\ sheet[view.table.index[k]].Date = current_time

\* C10: with plot identifiers unique within a lane, the record used for the name shown,
\* the past-dues status and the name written into the ledger rows is the roster record
\* whose lane and plot both equal the selection.
C10_RecordOfLaneAndPlot ==
    \A s \in Sessions :
        \E i \in 1..Len(df) :
            /\ df[i].Lane = sel[s].selected_lane
            /\ df[i].Plot = sel[s].plot_no
            /\ sel[s].resident_name = df[i].Name
            /\ sel[s].overdue = (df[i].PastDues > 0)
            /\ \A k \in 1..Len(rows_to_add[s]) : rows_to_add[s][k].Name = df[i].Name

\* lane "2", plot "5" is selected and the rows built carry the name of lane "1", plot "5"
C10_Witness ==
    \E s \in Sessions :
        /\ Selected(s) = [lane |-> Lane2, plot |-> Plot5]
        /\ \E i \in 1..Len(df) : df[i].Lane = Lane2 /\ df[i].Plot = Plot5 /\ df[i].Name = "Bala"
        /\ sel[s].resident_name = "Asha"
        /\ rows_to_add[s] # <<>> /\ rows_to_add[s][1].Name = "Asha"

=============================================================================
